---- MODULE Spec2Model ----
(***************************************************************************)
(* Model of the POST /extract handler of main.py (extract_merged): the     *)
(* filename gate, per-page text extraction and line normalisation, the     *)
(* row-filter heuristic with its fallback, the model call, JSON parsing    *)
(* and the construction of UnifiedRow objects.                             *)
(*                                                                         *)
(* Text is modelled as sequences of one-character strings so that          *)
(* lower(), upper(), strip(), split(), substring tests and the regular     *)
(* expressions are computed rather than assumed.                           *)
(***************************************************************************)
EXTENDS Integers, Sequences, FiniteSets, TLC

(***************************************************************************)
(* Bounds of the model.                                                    *)
(***************************************************************************)
MaxPages == 2
MaxRows == 2

(***************************************************************************)
(* Characters and the string primitives the handler uses.                  *)
(***************************************************************************)
LowerLetters ==
    << "a", "b", "c", "d", "e", "f", "g", "h", "i", "j", "k", "l", "m",
       "n", "o", "p", "q", "r", "s", "t", "u", "v", "w", "x", "y", "z" >>

UpperLetters ==
    << "A", "B", "C", "D", "E", "F", "G", "H", "I", "J", "K", "L", "M",
       "N", "O", "P", "Q", "R", "S", "T", "U", "V", "W", "X", "Y", "Z" >>

Digits == { "0", "1", "2", "3", "4", "5", "6", "7", "8", "9" }

Whitespace == { " ", "\t", "\n", "\r", "\f" }

UpperOf ==
    [ c \in { LowerLetters[i] : i \in 1..26 } |->
        UpperLetters[CHOOSE i \in 1..26 : LowerLetters[i] = c] ]

LowerOf ==
    [ c \in { UpperLetters[i] : i \in 1..26 } |->
        LowerLetters[CHOOSE i \in 1..26 : UpperLetters[i] = c] ]

\* str.upper()
upper(s) ==
    [ i \in 1..Len(s) |-> IF s[i] \in DOMAIN UpperOf THEN UpperOf[s[i]] ELSE s[i] ]

\* str.lower()
lower(s) ==
    [ i \in 1..Len(s) |-> IF s[i] \in DOMAIN LowerOf THEN LowerOf[s[i]] ELSE s[i] ]

\* str.startswith(p)
startswith(s, p) ==
    /\ Len(s) >= Len(p)
    /\ SubSeq(s, 1, Len(p)) = p

\* str.endswith(p)
endswith(s, p) ==
    /\ Len(s) >= Len(p)
    /\ SubSeq(s, Len(s) - Len(p) + 1, Len(s)) = p

\* p in s
contains(s, p) ==
    \E i \in 0..(Len(s) - Len(p)) : SubSeq(s, i + 1, i + Len(p)) = p

\* str.strip(): drop leading and trailing whitespace
RECURSIVE lstrip(_)
lstrip(s) ==
    IF s # <<>> /\ Head(s) \in Whitespace THEN lstrip(Tail(s)) ELSE s

RECURSIVE rstrip(_)
rstrip(s) ==
    IF s # <<>> /\ s[Len(s)] \in Whitespace
    THEN rstrip(SubSeq(s, 1, Len(s) - 1))
    ELSE s

strip(s) == rstrip(lstrip(s))

\* str.split("\n"): the pieces between line breaks, empty pieces included
RECURSIVE split_nl(_, _, _)
split_nl(t, i, cur) ==
    IF i > Len(t) THEN << cur >>
    ELSE IF t[i] = "\n" THEN << cur >> \o split_nl(t, i + 1, <<>>)
    ELSE split_nl(t, i + 1, Append(cur, t[i]))

\* re.sub(r"\s+", " ", ln): every run of whitespace becomes one space
RECURSIVE collapse_ws(_, _, _)
collapse_ws(s, i, inRun) ==
    IF i > Len(s) THEN <<>>
    ELSE IF s[i] \in Whitespace
         THEN (IF inRun THEN <<>> ELSE << " " >>) \o collapse_ws(s, i + 1, TRUE)
         ELSE << s[i] >> \o collapse_ws(s, i + 1, FALSE)

\* re.match(r"^\d+\s", ln)
match_digits_space(ln) ==
    \E k \in 1..(Len(ln) - 1) :
        /\ \A j \in 1..k : ln[j] \in Digits
        /\ ln[k + 1] \in Whitespace

(***************************************************************************)
(* Program constants.                                                      *)
(***************************************************************************)
PDF_SUFFIX == <<".", "p", "d", "f">>

stop_markers ==
    << <<"A", "P", "'", "S", " ", "O", "V", "E", "R", "D", "U", "E">>,
       <<"A", "P", "'", "S", " ", "D", "U", "E">>,
       <<"O", "V", "E", "R", "D", "U", "E", " ", "A", "P">>,
       <<"D", "U", "E", " ", "C", "M">>,
       <<"S", "E", "P", "T", "E", "M", "B", "E", "R">>,
       <<"A", "L", "L", " ", "I", "N", "T", "A", "K", "E">>,
       <<"N", "E", "E", "D", "S", " ", "H", "0", "0", "4", "4">> >>

KW_NAME == <<"N", "A", "M", "E">>
KW_MRN == <<"M", "R", "N">>
KW_MBR == <<"M", "B", "R">>
KW_AUGUST == <<"A", "U", "G", "U", "S", "T">>
COMMA == <<",">>

UnifiedRowFields ==
    { "Name", "MemberID", "T1023AuthId", "T1023Range", "T1023BillDate",
      "H0044AuthId", "H0044Range", "H0044BillDate", "Paid" }

(***************************************************************************)
(* Step 0: the filename gate.                                              *)
(***************************************************************************)
\* a gate that accepts any name mentioning the suffix
is_pdf_name_anywhere(filename) == contains(lower(filename), PDF_SUFFIX)

\* file.filename.lower().endswith(".pdf")
is_pdf_name(filename) == endswith(lower(filename), PDF_SUFFIX)

(***************************************************************************)
(* Step 1: lines of the pages.  A page is [isNone, text]: extract_text()   *)
(* returns None or a string.                                               *)
(***************************************************************************)
RECURSIVE normalize_pieces(_, _)
normalize_pieces(pieces, i) ==
    IF i > Len(pieces) THEN <<>>
    ELSE (IF strip(pieces[i]) # <<>>
          THEN << strip(collapse_ws(pieces[i], 1, FALSE)) >>
          ELSE <<>>) \o normalize_pieces(pieces, i + 1)

\* the list comprehension over t.split("\n")
page_lines(t) == normalize_pieces(split_nl(t, 1, <<>>), 1)

RECURSIVE extract_lines(_, _)
extract_lines(pages, p) ==
    IF p > Len(pages) THEN <<>>
    ELSE (IF ~pages[p].isNone /\ pages[p].text # <<>>
          THEN page_lines(pages[p].text)
          ELSE <<>>) \o extract_lines(pages, p + 1)

\* a check that never short-circuits
never_empty_document(all_lines) == FALSE

\* if not all_text_lines
is_empty_document(all_lines) == Len(all_lines) = 0

(***************************************************************************)
(* Step 2: the row filter.  The loop is computed over positions: the       *)
(* result is the sequence of positions whose lines were appended to        *)
(* filtered_lines, so that a line of the output can be told apart from an  *)
(* equal line elsewhere in the input.                                      *)
(***************************************************************************)
\* any(m in ln.upper() for m in stop_markers)
has_stop_marker(ln) ==
    \E m \in 1..Len(stop_markers) : contains(upper(ln), stop_markers[m])

\* ("NAME" in ln.upper()) and (("MRN" in ln.upper()) or ("MBR" in ln.upper()))
is_header(ln) ==
    /\ contains(upper(ln), KW_NAME)
    /\ \/ contains(upper(ln), KW_MRN)
       \/ contains(upper(ln), KW_MBR)

\* the month test applied first, to headers as well
keep_line_august_first(ln) ==
    /\ ~startswith(upper(ln), KW_AUGUST)
    /\ \/ is_header(ln)
       \/ match_digits_space(ln)
       \/ contains(ln, COMMA)

\* re.match(r"^\d+\s", ln) or ("," in ln and not ln.upper().startswith("AUGUST"))
is_data_row(ln) ==
    \/ match_digits_space(ln)
    \/ /\ contains(ln, COMMA)
       /\ ~startswith(upper(ln), KW_AUGUST)

\* the two appends of the loop body
keep_line(ln) ==
    IF is_header(ln) THEN TRUE ELSE is_data_row(ln)

RECURSIVE filter_from(_, _, _)
filter_from(all_lines, i, kept) ==
    IF i > Len(all_lines) THEN kept
    ELSE IF has_stop_marker(all_lines[i]) THEN kept
    ELSE IF keep_line(all_lines[i])
         THEN filter_from(all_lines, i + 1, Append(kept, i))
         ELSE filter_from(all_lines, i + 1, kept)

\* a loop that starts at the second line
filter_loop_skip_first(all_lines) == filter_from(all_lines, 2, <<>>)

\* for ln in all_text_lines: ... (positions appended to filtered_lines)
filter_loop(all_lines) == filter_from(all_lines, 1, <<>>)

\* a filter without the fallback
fallback_never(kept, all_lines) == kept

\* if not filtered_lines: filtered_lines = all_text_lines
fallback(kept, all_lines) ==
    IF kept = <<>> THEN [ i \in 1..Len(all_lines) |-> i ] ELSE kept

filter_positions(all_lines) == fallback(filter_loop(all_lines), all_lines)

lines_at(all_lines, positions) ==
    [ k \in 1..Len(positions) |-> all_lines[positions[k]] ]

\* step 2 as a function of the line list
row_filter(all_lines) == lines_at(all_lines, filter_positions(all_lines))

(***************************************************************************)
(* Steps 3-4: the model's reply and the rows built from it.  JSON values   *)
(* are tagged: null, str, num, arr (a sequence), obj (a function on keys). *)
(* The reply's content is None, text that is not JSON, or JSON text.       *)
(***************************************************************************)
JNull == [t |-> "null"]
JStr(s) == [t |-> "str", v |-> s]
JNum(n) == [t |-> "num", v |-> n]
JArr(a) == [t |-> "arr", v |-> a]
JObj(f) == [t |-> "obj", v |-> f]

ContentNone == [t |-> "none"]
ContentText(s) == [t |-> "text", v |-> s]
ContentJson(j) == [t |-> "json", v |-> j]

\* the exception raised between completion.choices[0] and data.get, or ""
parse_error(content) ==
    IF content.t = "none"
    THEN "the JSON object must be str, bytes or bytearray, not NoneType"
    ELSE IF content.t = "text"
    THEN "Expecting value: line 1 column 1 (char 0)"
    ELSE IF content.v.t # "obj"
    THEN "object has no attribute 'get'"
    ELSE ""

\* a lookup that insists on the key
rows_required(data) == data.v["rows"]

\* data.get("rows", [])
data_get_rows(data) ==
    IF "rows" \in DOMAIN data.v THEN data.v["rows"] ELSE JArr(<<>>)

RECURSIVE keys_of(_)
keys_of(S) ==
    IF S = {} THEN <<>>
    ELSE LET k == CHOOSE k \in S : TRUE IN << JStr(k) >> \o keys_of(S \ {k})

iterable(rows) == rows.t \in { "arr", "obj", "str" }

\* what "for r in rows" yields
iter_items(rows) ==
    IF rows.t = "arr" THEN rows.v
    ELSE IF rows.t = "obj" THEN keys_of(DOMAIN rows.v)
    ELSE [ i \in 1..Len(rows.v) |-> JStr(SubSeq(rows.v, i, i)) ]

\* pydantic's verdict on one value of an Optional[str] field
field_accepted(val, coerces) ==
    \/ val.t \in { "str", "null" }
    \/ val.t = "num" /\ coerces

\* the exception UnifiedRow(**r) raises, or ""
row_error(r, coerces) ==
    IF r.t # "obj" THEN "TypeError"
    ELSE IF \E f \in UnifiedRowFields \cap DOMAIN r.v : ~field_accepted(r.v[f], coerces)
    THEN "ValidationError"
    ELSE ""

\* the exception the list comprehension of line 143 raises, or ""
normalize_error(rows, coerces) ==
    IF ~iterable(rows) THEN "TypeError"
    ELSE LET items == iter_items(rows)
             bad == { i \in 1..Len(items) : row_error(items[i], coerces) # "" }
         IN IF bad = {} THEN ""
            ELSE row_error(items[CHOOSE i \in bad : \A j \in bad : i <= j], coerces)

field_value(val) ==
    IF val.t = "num" THEN JStr(ToString(val.v)) ELSE val

\* a row that carries every key of the record
unified_row_all_keys(r) ==
    [ f \in DOMAIN r.v |-> field_value(r.v[f]) ]

\* UnifiedRow(**r).dict()
unified_row(r) ==
    [ f \in UnifiedRowFields |->
        IF f \in DOMAIN r.v THEN field_value(r.v[f]) ELSE JNull ]

\* [row.dict() for row in normalized]
normalized_rows(rows) ==
    LET items == iter_items(rows)
    IN [ i \in 1..Len(items) |-> unified_row(items[i]) ]

(***************************************************************************)
(* Inputs of the model.                                                    *)
(***************************************************************************)
Filenames ==
    { <<"a", ".", "p", "d", "f">>,
      <<"A", ".", "P", "D", "F">>,
      <<"a", ".", "t", "x", "t">>,
      <<"a", ".", "p", "d", "f", ".", "t", "x", "t">>,
      <<"p", "d", "f">>,
      <<"a", ".", "p", "d", "f", " ">>,
      <<>> }

PageTexts ==
    { <<>>,
      <<" ", "\n", "\t", " ", "\r", "\n">>,
      <<"N", "A", "M", "E", " ", " ", "M", "R", "N", "#", "\n", "1", " ", "J", "a", "n", "e", ",", " ", "9", "9", "9">>,
      <<"S", "E", "P", "T", "E", "M", "B", "E", "R", " ", "D", "I", "G", "E", "S", "T", "\n", "2", " ", "B", "o", "b", ",", " ", "1", "1", "1">>,
      <<"N", "a", "m", "e", " ", "M", "b", "r", "\n", "7", "u", "p">>,
      <<"A", "u", "g", "u", "s", "t", " ", "N", "a", "m", "e", ",", " ", "M", "R", "N">>,
      <<"a", "u", "g", "u", "s", "t", " ", "5", ",", " ", "x", "\n", "N", "o", "t", "e", "s">>,
      <<"\t", "1", "2", " ", " ", "A", "l", " ", "\n", "D", "o", "e", ",", " ", "J">>,
      <<"x", " ", "d", "u", "e", " ", "c", "m">> }

Pages ==
    { [isNone |-> TRUE, text |-> <<>>] } \cup
    { [isNone |-> FALSE, text |-> t] : t \in PageTexts }

Documents == UNION { [1..n -> Pages] : n \in 0..MaxPages }

PdfErrors == { "No /Root object! - Is this really a PDF?", "Unexpected EOF" }

ModelErrors == { "Request timed out.", "Error code: 429" }

\* elements a model may put in the row array
RowPool ==
    << JObj([Name |-> JStr("John Doe"), MemberID |-> JStr("12345"),
             T1023AuthId |-> JStr("A100"), T1023Range |-> JStr("04/01-07/01"),
             T1023BillDate |-> JNull, H0044AuthId |-> JNull,
             H0044Range |-> JNull, H0044BillDate |-> JNull, Paid |-> JNull]),
       JObj([Name |-> JStr("Jane"), RowNumber |-> JStr("1"), Paid |-> JStr("Y")]),
       JObj([Name |-> JStr("Bob"), MemberID |-> JNum(111)]),
       JStr("1 Jane, 999"),
       JObj(<<>>) >>

\* replies that are not an object with an array under "rows"
OtherContents ==
    << ContentNone,
       ContentText("Sorry, I cannot help."),
       ContentJson(JObj(<<>>)),
       ContentJson(JObj([data |-> JArr(<< RowPool[1] >>)])),
       ContentJson(JObj([rows |-> JNull])),
       ContentJson(JObj([rows |-> JNum(5)])),
       ContentJson(JObj([rows |-> JStr("")])),
       ContentJson(JObj([rows |-> JStr("ab")])),
       ContentJson(JObj([rows |-> JObj(<<>>)])),
       ContentJson(JObj([rows |-> JArr(<< JObj([Name |-> JArr(<< JStr("Al") >>)]) >>)])),
       ContentJson(JObj([rows |-> JObj([Name |-> JStr("Jane")])])),
       ContentJson(JArr(<< RowPool[1] >>)),
       ContentJson(JStr("rows")),
       ContentJson(JObj([rows |-> JArr(<< RowPool[2] >>), note |-> JStr("done")])) >>

RowsContent(sel) ==
    ContentJson(JObj([rows |-> JArr([ i \in 1..Len(sel) |-> RowPool[sel[i]] ])]))

RowSelections == UNION { [1..n -> 1..Len(RowPool)] : n \in 0..MaxRows }

(***************************************************************************)
(* State of one request.                                                   *)
(***************************************************************************)
VARIABLES
    pc,                \* "idle", "extract", "model", "done"
    filename,          \* file.filename
    extract_calls,     \* uses of pdfplumber.open in this request
    model_calls,       \* uses of client.chat.completions.create in this request
    extracted,         \* "no", "ok", "error": how the try block of step 1 ended
    all_text_lines,
    filtered_pos,      \* positions in all_text_lines of the lines of filtered_lines
    filtered_lines,
    content,           \* completion.choices[0].message.content
    response,          \* the dict the handler returned
    raised,            \* the exception that left the handler, or ""
    pydantic_coerces   \* whether the installed pydantic turns a number into a str

vars ==
    << pc, filename, extract_calls, model_calls, extracted, all_text_lines,
       filtered_pos, filtered_lines, content, response, raised, pydantic_coerces >>

NoContent == [t |-> "unset"]
NoResponse == [pending |-> TRUE]

error_response(msg) == [status |-> FALSE, data |-> <<>>, error |-> msg]

\* an empty document reported as success
empty_response_true == [status |-> TRUE, data |-> <<>>]

\* return {"status": False, "data": []}
empty_response == [status |-> FALSE, data |-> <<>>]

ok_response(data) == [status |-> TRUE, data |-> data]

Init ==
    /\ pc = "idle"
    /\ filename = <<>>
    /\ extract_calls = 0
    /\ model_calls = 0
    /\ extracted = "no"
    /\ all_text_lines = <<>>
    /\ filtered_pos = <<>>
    /\ filtered_lines = <<>>
    /\ content = NoContent
    /\ response = NoResponse
    /\ raised = ""
    /\ pydantic_coerces \in BOOLEAN

\* a request arrives: lines 48-49
Receive(fn) ==
    /\ pc \in { "idle", "done" }
    /\ filename' = fn
    /\ extract_calls' = 0
    /\ model_calls' = 0
    /\ extracted' = "no"
    /\ all_text_lines' = <<>>
    /\ filtered_pos' = <<>>
    /\ filtered_lines' = <<>>
    /\ content' = NoContent
    /\ raised' = ""
    /\ IF ~is_pdf_name(fn)
       THEN /\ response' = error_response("Please upload a PDF")
            /\ pc' = "done"
       ELSE /\ response' = NoResponse
            /\ pc' = "extract"
    /\ UNCHANGED pydantic_coerces

\* pdfplumber raises: lines 52-65
ExtractFails(e) ==
    /\ pc = "extract"
    /\ extract_calls' = extract_calls + 1
    /\ extracted' = "error"
    /\ response' = error_response("PDF read error: " \o e)
    /\ pc' = "done"
    /\ UNCHANGED << filename, model_calls, all_text_lines, filtered_pos,
                    filtered_lines, content, raised, pydantic_coerces >>

\* pdfplumber yields the pages: lines 52-93 (and the prompt of 95-125)
ExtractOk(pages) ==
    /\ pc = "extract"
    /\ extract_calls' = extract_calls + 1
    /\ extracted' = "ok"
    /\ all_text_lines' = extract_lines(pages, 1)
    /\ IF is_empty_document(all_text_lines')
       THEN /\ response' = empty_response
            /\ pc' = "done"
            /\ UNCHANGED << filtered_pos, filtered_lines >>
       ELSE /\ filtered_pos' = filter_positions(all_text_lines')
            /\ filtered_lines' = lines_at(all_text_lines', filtered_pos')
            /\ pc' = "model"
            /\ UNCHANGED response
    /\ UNCHANGED << filename, model_calls, content, raised, pydantic_coerces >>

\* client.chat.completions.create raises: lines 127-141
ModelFails(e) ==
    /\ pc = "model"
    /\ model_calls' = model_calls + 1
    /\ response' = error_response("AI extraction failed: " \o e)
    /\ pc' = "done"
    /\ UNCHANGED << filename, extract_calls, extracted, all_text_lines,
                    filtered_pos, filtered_lines, content, raised, pydantic_coerces >>

\* the model replies with content c: lines 127-145
ModelReturns(c) ==
    /\ pc = "model"
    /\ model_calls' = model_calls + 1
    /\ content' = c
    /\ pc' = "done"
    /\ IF parse_error(c) # ""
       THEN /\ response' = error_response("AI extraction failed: " \o parse_error(c))
            /\ UNCHANGED raised
       ELSE LET rows == data_get_rows(c.v)
            IN IF normalize_error(rows, pydantic_coerces) # ""
               THEN /\ raised' = normalize_error(rows, pydantic_coerces)
                    /\ UNCHANGED response
               ELSE /\ response' = ok_response(normalized_rows(rows))
                    /\ UNCHANGED raised
    /\ UNCHANGED << filename, extract_calls, extracted, all_text_lines,
                    filtered_pos, filtered_lines, pydantic_coerces >>

Next ==
    \/ \E fn \in Filenames : Receive(fn)
    \/ \E e \in PdfErrors : ExtractFails(e)
    \/ \E pages \in Documents : ExtractOk(pages)
    \/ \E e \in ModelErrors : ModelFails(e)
    \/ \E i \in 1..Len(OtherContents) : ModelReturns(OtherContents[i])
    \/ \E sel \in RowSelections : ModelReturns(RowsContent(sel))

Spec == Init /\ [][Next]_vars

(***************************************************************************)
(* Vocabulary of the properties, stated without the handler's operators    *)
(* for the filename gate, the loop and the fallback.                       *)
(***************************************************************************)
EndsWithPdfAnyCase(fn) ==
    LET n == Len(fn)
    IN /\ n >= 4
       /\ fn[n - 3] = "."
       /\ fn[n - 2] \in { "p", "P" }
       /\ fn[n - 1] \in { "d", "D" }
       /\ fn[n] \in { "f", "F" }

\* positions of the lines that contain a trailer marker
MarkerPositions(lines) == { i \in 1..Len(lines) : has_stop_marker(lines[i]) }

\* the keep decision as the specification words it
KeepRule(ln) ==
    \/ contains(upper(ln), KW_NAME) /\ contains(upper(ln), KW_MRN)
    \/ contains(upper(ln), KW_NAME) /\ contains(upper(ln), KW_MBR)
    \/ match_digits_space(ln)
    \/ contains(ln, COMMA) /\ SubSeq(upper(ln), 1, 6) # KW_AUGUST

\* positions before every trailer marker whose line the rule keeps
KeptPositions(lines) ==
    { j \in 1..Len(lines) :
        /\ \A i \in MarkerPositions(lines) : j < i
        /\ KeepRule(lines[j]) }

RECURSIVE Ascending(_)
Ascending(S) ==
    IF S = {} THEN <<>>
    ELSE LET m == CHOOSE m \in S : \A x \in S : m <= x
         IN << m >> \o Ascending(S \ {m})

LinesOf(lines, S) == lines_at(lines, Ascending(S))

ResponseKeys == IF response = NoResponse THEN {} ELSE DOMAIN response

Returned == pc = "done" /\ raised = "" /\ response # NoResponse

HasErrorPrefix(prefix) ==
    /\ "error" \in ResponseKeys
    /\ Len(response.error) >= Len(prefix)
    /\ SubSeq(response.error, 1, Len(prefix)) = prefix

\* the reply is a JSON object whose "rows" is an array
HasRowArray ==
    /\ content.t = "json"
    /\ content.v.t = "obj"
    /\ "rows" \in DOMAIN content.v.v
    /\ content.v.v["rows"].t = "arr"

(***************************************************************************)
(* C1. Stop-marker property: when some line i of the input contains a      *)
(* trailer marker, no line at a position >= i is among the filtered lines  *)
(* handed to the prompt, also when nothing was kept before i.              *)
(***************************************************************************)
C1_StopMarker ==
    pc = "model" =>
        \A i \in MarkerPositions(all_text_lines) :
            \A k \in 1..Len(filtered_pos) : filtered_pos[k] < i

(***************************************************************************)
(* C2. Fallback property: if the line-by-line rules keep nothing, the      *)
(* filter's output is the full line sequence in order; otherwise it is     *)
(* exactly the kept lines; the output is never empty for a non-empty input.*)
(***************************************************************************)
C2_Fallback ==
    pc = "model" =>
        LET kept == KeptPositions(all_text_lines)
        IN /\ kept = {} => filtered_lines = all_text_lines
           /\ kept # {} => filtered_lines = LinesOf(all_text_lines, kept)
           /\ all_text_lines # <<>> => filtered_lines # <<>>

C2_Witness ==
    /\ pc = "model"
    /\ Len(all_text_lines) >= 2
    /\ KeptPositions(all_text_lines) = {}
    /\ filtered_lines = all_text_lines

C4_FilenameGate ==
    (pc # "idle" /\ ~EndsWithPdfAnyCase(filename)) =>
        /\ pc = "done"
        /\ raised = ""
        /\ response = [status |-> FALSE, data |-> <<>>, error |-> "Please upload a PDF"]
        /\ extract_calls = 0
        /\ model_calls = 0
        /\ extracted = "no"

C4_Witness ==
    /\ pc = "done"
    /\ filename = <<"a", ".", "p", "d", "f", ".", "t", "x", "t">>
    /\ response = [status |-> FALSE, data |-> <<>>, error |-> "Please upload a PDF"]

(***************************************************************************)
(* C5. Uniform error boundary: every finished request has a response of    *)
(* the shape {status, data[, error]}, no exception leaves the handler, and *)
(* a response with status false has an empty data list.                    *)
(***************************************************************************)
C5_UniformErrorBoundary ==
    pc = "done" =>
        /\ raised = ""
        /\ ResponseKeys \in { { "status", "data" }, { "status", "data", "error" } }
        /\ response.status = FALSE => response.data = <<>>

(***************************************************************************)
(* C6. Model-response failure reporting: when the model call fails, the    *)
(* returned text is not valid JSON, or the JSON object has no "rows"       *)
(* field, the response is the "AI extraction failed: <detail>" failure,    *)
(* never status true.                                                      *)
(***************************************************************************)
C6_ModelFailureReported ==
    (/\ pc = "done"
     /\ model_calls = 1
     /\ \/ content.t \in { "unset", "none", "text" }
        \/ content.t = "json" /\ content.v.t = "obj" /\ "rows" \notin DOMAIN content.v.v) =>
        /\ Returned
        /\ response.status = FALSE
        /\ response.data = <<>>
        /\ HasErrorPrefix("AI extraction failed: ")

(***************************************************************************)
(* C7. Schema Normalizer total-field property: in a success response,      *)
(* every row has exactly the nine fields, each a string or null; when the  *)
(* reply carries a row array, data has one row per element in the same     *)
(* order, a missing field is null and a string value is copied unchanged.  *)
(***************************************************************************)
C7_TotalFields ==
    (Returned /\ response.status = TRUE) =>
        /\ \A i \in 1..Len(response.data) :
              /\ DOMAIN response.data[i] = UnifiedRowFields
              /\ \A f \in UnifiedRowFields : response.data[i][f].t \in { "str", "null" }
        /\ HasRowArray =>
              LET arr == content.v.v["rows"].v
              IN /\ Len(response.data) = Len(arr)
                 /\ \A i \in 1..Len(arr) : \A f \in UnifiedRowFields :
                       /\ f \notin DOMAIN arr[i].v => response.data[i][f] = JNull
                       /\ (f \in DOMAIN arr[i].v /\ arr[i].v[f].t \in { "str", "null" }) =>
                             response.data[i][f] = arr[i].v[f]

C7_Witness ==
    /\ Returned
    /\ response.status = TRUE
    /\ HasRowArray
    /\ Len(response.data) = 2
    /\ "RowNumber" \in DOMAIN content.v.v["rows"].v[1].v
    /\ response.data[1]["Name"] = JStr("Jane")
    /\ response.data[2]["Name"] = JStr("John Doe")
    /\ response.data[1]["MemberID"] = JNull

(***************************************************************************)
(* C8. Row Filter idempotence: when the rules keep at least one line (the  *)
(* fallback does not fire), filtering the filter's output again yields the *)
(* same line sequence.                                                     *)
(***************************************************************************)
C8_Idempotent ==
    (pc = "model" /\ KeptPositions(all_text_lines) # {}) =>
        row_filter(filtered_lines) = filtered_lines

C8_Witness ==
    /\ pc = "model"
    /\ Cardinality(KeptPositions(all_text_lines)) >= 2
    /\ MarkerPositions(all_text_lines) # {}
    /\ Len(filtered_lines) < Len(all_text_lines)
    /\ row_filter(filtered_lines) = filtered_lines

(***************************************************************************)
(* C9. Per-line keep decision: a line before every trailer marker is kept  *)
(* iff it is a header (NAME with MRN or MBR, any case), or starts with     *)
(* digits and whitespace, or has a comma and does not start with AUGUST; a *)
(* header is kept even when it starts with AUGUST; the kept lines appear   *)
(* once each in input order and, when any line is kept, they are the       *)
(* filter's output.                                                        *)
(***************************************************************************)
C9_KeepDecision ==
    pc = "model" =>
        LET kept == KeptPositions(all_text_lines)
        IN /\ filter_loop(all_text_lines) = Ascending(kept)
           /\ kept # {} =>
                 /\ filtered_pos = Ascending(kept)
                 /\ filtered_lines = LinesOf(all_text_lines, kept)

C9_Witness ==
    /\ pc = "model"
    /\ Len(all_text_lines) = 3
    /\ all_text_lines[1] = <<"a", "u", "g", "u", "s", "t", " ", "5", ",", " ", "x">>
    /\ all_text_lines[2] = <<"N", "o", "t", "e", "s">>
    /\ all_text_lines[3] = <<"A", "u", "g", "u", "s", "t", " ", "N", "a", "m", "e", ",", " ", "M", "R", "N">>
    /\ filtered_pos = << 3 >>

(***************************************************************************)
(* C10. Pipeline ordering and no retry: within a request the extractor and *)
(* the model are each invoked at most once; the model is invoked only      *)
(* after extraction succeeded with a non-empty line sequence; a failed     *)
(* extraction is answered with "PDF read error: <detail>" without a model  *)
(* call; a model call, failed or not, ends the request.                    *)
(***************************************************************************)
C10_OrderingNoRetry ==
    [][ /\ extract_calls' <= 1
        /\ model_calls' <= 1
        /\ extract_calls' > extract_calls => (pc = "extract" /\ extract_calls = 0 /\ model_calls = 0)
        /\ model_calls' > model_calls =>
              /\ extracted = "ok"
              /\ extract_calls = 1
              /\ all_text_lines # <<>>
              /\ model_calls = 0
              /\ pc' = "done"
        /\ extracted' = "error" =>
              /\ pc' = "done"
              /\ model_calls' = 0
              /\ raised' = ""
              /\ response'.status = FALSE
              /\ response'.data = <<>>
              /\ DOMAIN response' = { "status", "data", "error" }
              /\ SubSeq(response'.error, 1, 16) = "PDF read error: "
      ]_vars

C10_Witness ==
    /\ pc = "done"
    /\ extracted = "error"
    /\ extract_calls = 1
    /\ model_calls = 0
    /\ HasErrorPrefix("PDF read error: ")

====
